---- MODULE Spec2Model ----
(***************************************************************************)
(* Mitten (src/mitten.py): a poller that watches repository:branch keys    *)
(* for new commits, keeps a durable de-duplication log (commit_log.json)   *)
(* and posts one webhook notification per newly detected commit.           *)
(*                                                                         *)
(* A commit of a key is named by its position in committer-time order:     *)
(* commit c of key k is the c-th commit created on k, and its committer    *)
(* date is CommitDate(c), so T1 < T2 < T3 ... as in the specification's    *)
(* examples.  The remote service and the file system are the environment:  *)
(* the order in which a commit listing is returned, whether the `since`    *)
(* bound is inclusive, when commits are created and when the process is    *)
(* killed are all chosen nondeterministically.                             *)
(***************************************************************************)
EXTENDS Integers, Sequences, FiniteSets, TLC

VARIABLES
    remote,          \* environment: remote[k] = number of commits on key k
    file,            \* commit_log.json: [state, data]
    pc,              \* position of the single control flow of main()
    commit_log,      \* main(): the in-memory log used by the bootstrap
    latest_commits,  \* main(): watermark dict, key -> committer date
    new_repos,       \* main(): keys absent from the log at start-up
    idx,             \* index of the current key in new_repos / parsed_repos
    commits,         \* initialize_repo_log(): result of fetch_all_commits
    new_commits,     \* check_repo(): the fetched list, sorted
    i,               \* check_repo(): position of the for loop in new_commits
    notified,        \* history: notified[k][c] = number of webhook posts
    emitted,         \* history: commits posted by the operation in progress
    batchNew,        \* history: fetched commits that were unlogged at fetch
    writers,         \* concurrent harness: two notify_discord store sections
    raised,          \* the exception in flight in main(), "none" if none
    quota,           \* main(): requests_remaining of line 563
    slept,           \* seconds of the time.sleep in progress, 0 in a cycle
    attempt,         \* history: what this cycle did with each key so far
    undelivered,     \* history: <<key, sha, posts so far>> of failed posts
    faults,          \* environment: number of writes that failed midway
    replay,          \* replay harness: the fetch result handed in twice
    config,          \* configuration harness: REPOS and what it parses to
    pager            \* pagination harness: one call of fetch_all_commits

vars == <<remote, file, pc, commit_log, latest_commits, new_repos, idx,
          commits, new_commits, i, notified, emitted, batchNew, writers,
          raised, quota, slept, attempt, undelivered, faults, replay,
          config, pager>>

\* Groups of variables that most steps leave alone.
sched == <<raised, quota, slept, attempt, undelivered>>
harness == <<faults, replay, config, pager>>

----------------------------------------------------------------------------
(* Bounds *)

MaxCommits == 3

\* Longest REPOS list given to parse_repos.
MaxRepos == 2

\* Most writes of the log that fail inside json.dump in one behaviour.
MaxTorn == 1

----------------------------------------------------------------------------
(* Values of the program *)

\* Line 55: the default polling interval, in seconds.
CHECK_INTERVAL == 60

\* Line 565: requests budgeted per watched key and cycle.
PerKeyCost == 10

----------------------------------------------------------------------------
(* Configuration and data *)

\* REPOS after parse_repos: the watched repository:branch keys, in order.
parsed_repos == <<"acme/widgets:main", "acme/gears:dev">>

Keys == {parsed_repos[n] : n \in 1..Len(parsed_repos)}

Commits == 1..MaxCommits

\* commit['commit']['committer']['date'] of the c-th commit of a key.
CommitDate(c) == c

\* Python's None for last_seen_timestamp (no watermark for the key).
NoneTs == 0

\* An empty dict {}.
EmptyLog == [k \in {} |-> {}]

Range(s) == {s[n] : n \in 1..Len(s)}

\* Every order in which the remote service may list the set S.
Orders(S) == {f \in [1..Cardinality(S) -> S] :
                 \A a, b \in 1..Cardinality(S) : a # b => f[a] # f[b]}

----------------------------------------------------------------------------
(* Commit Log Store: lines 127-151 *)

\* load_commit_log: a missing or unparsable file yields {}.
load_commit_log(f) == IF f.state = "json" THEN f.data ELSE EmptyLog

\* A save_commit_log that dumps an empty dict whatever it is given.
save_commit_log_empty(log) == [state |-> "json", data |-> EmptyLog]

\* save_commit_log: open(..., 'w') and json.dump of the whole dict.
save_commit_log(log) == [state |-> "json", data |-> log]

\* The file while save_commit_log is between open(..., 'w'), which truncates
\* it, and the end of json.dump: empty or a prefix of a JSON document.
TornFile == [state |-> "torn", data |-> EmptyLog]

\* A has_been_logged that finds nothing (the default of .get is returned).
has_been_logged_never(key, sha, log) == FALSE

\* commit_log.get(key, {}).get(commit_sha, False)
has_been_logged(key, sha, log) ==
    IF key \in DOMAIN log THEN sha \in log[key] ELSE FALSE

\* Lines 148-150 (and 286-290 for one commit): commit_log[key][sha] = True.
MarkSeen(log, key, sha) ==
    [k \in DOMAIN log \cup {key} |->
        IF k = key
        THEN (IF key \in DOMAIN log THEN log[key] ELSE {}) \cup {sha}
        ELSE log[k]]

\* A log_notified_commit that saves the dict without marking the SHA.
log_notified_commit_forgets(key, sha, log) == log

\* log_notified_commit, lines 148-150: the dict that line 151 then saves.
log_notified_commit(key, sha, log) == MarkSeen(log, key, sha)

----------------------------------------------------------------------------
(* Fetcher: lines 185-268 *)

\* latest_commits.get(key)
last_seen_timestamp(latest, key) ==
    IF key \in DOMAIN latest THEN latest[key] ELSE NoneTs

\* fetch_new_commits: the commits of the branch, restricted by &since= when a
\* watermark is known.  Whether the commit dated exactly `since` is listed
\* is the remote service's choice (inclusive).
fetch_new_commits(key, since, inclusive) ==
    {c \in 1..remote[key] :
        \/ since = NoneTs
        \/ CommitDate(c) > since
        \/ inclusive /\ CommitDate(c) = since}

\* fetch_all_commits: every commit of the branch, all pages concatenated.
fetch_all_commits(key) == 1..remote[key]

----------------------------------------------------------------------------
(* check_repo helpers: lines 499-504 *)

\* Insert c behind every element whose date is not later (list.sort is stable).
InsertByDate(c, s) ==
    LET n == Cardinality({m \in 1..Len(s) : CommitDate(s[m]) <= CommitDate(c)})
    IN  SubSeq(s, 1, n) \o <<c>> \o SubSeq(s, n + 1, Len(s))

\* A check_repo that leaves the list in the order in which it was fetched.
sort_by_date_unsorted(s) == s

RECURSIVE sort_by_date(_)
\* new_commits.sort(key=lambda commit: commit['commit']['committer']['date'])
sort_by_date(s) ==
    IF Len(s) = 0 THEN <<>>
    ELSE InsertByDate(s[Len(s)], sort_by_date(SubSeq(s, 1, Len(s) - 1)))

----------------------------------------------------------------------------
(* initialize_repo_log helpers: lines 286-295 *)

\* An initialize_repo_log whose loop starts at commits[1] and so never marks
\* commits[0].
init_log_skips_first(log, key, cs) ==
    LET base == [k \in DOMAIN log \cup {key} |->
                    IF k \in DOMAIN log THEN log[k] ELSE {}]
    IN  [base EXCEPT ![key] = @ \cup {cs[n] : n \in 2..Len(cs)}]

RECURSIVE init_log(_, _, _)
\* Lines 286-290: commit_log[key] = {} if absent, then every sha -> True.
init_log(log, key, cs) ==
    IF Len(cs) = 0
    THEN [k \in DOMAIN log \cup {key} |->
             IF k \in DOMAIN log THEN log[k] ELSE {}]
    ELSE MarkSeen(init_log(log, key, SubSeq(cs, 1, Len(cs) - 1)),
                  key, cs[Len(cs)])

\* Lines 294-295: latest_commits[key] = commits[0]['commit']['committer']['date']
init_watermark(latest, key, cs) ==
    IF Len(cs) > 0
    THEN [k \in DOMAIN latest \cup {key} |->
             IF k = key THEN CommitDate(cs[1]) ELSE latest[k]]
    ELSE latest

----------------------------------------------------------------------------
(* Initial state: the process is about to run main(); no commit_log.json. *)

Writers == {1, 2}

NoWriters == [w \in Writers |->
                 [pc |-> "idle", key |-> parsed_repos[w], sha |-> 1,
                  log |-> EmptyLog]]

\* No key has been handled yet in the cycle.
NoAttempt == [k \in Keys |-> "none"]

\* The harnesses at rest.
NoReplay == [round |-> 0, list |-> <<>>,
             notified |-> [k \in Keys |-> [c \in Commits |-> 0]],
             log |-> EmptyLog]
NoConfig == [REPOS |-> <<>>, log_keys |-> <<>>, default |-> <<>>,
             parsed_repos |-> <<>>, new_repos |-> <<>>]


\* None as the url of fetch_all_commits: the while loop of line 241 ends.
NoneUrl == [page |-> 0, clean |-> TRUE]

NoPager == [pages |-> <<>>, prev_first |-> FALSE, spaced |-> FALSE,
            url |-> NoneUrl, commits |-> <<>>, wait_time |-> 0,
            pc |-> "idle"]

Volatile ==
    /\ commit_log = EmptyLog
    /\ latest_commits = EmptyLog
    /\ new_repos = <<>>
    /\ idx = 1
    /\ commits = <<>>
    /\ new_commits = <<>>
    /\ i = 1
    /\ emitted = <<>>
    /\ batchNew = {}
    /\ raised = "none"
    /\ quota = 0
    /\ slept = 0
    /\ attempt = NoAttempt

Init ==
    /\ remote = [k \in Keys |-> 1]
    /\ file = [state |-> "missing", data |-> EmptyLog]
    /\ pc = "main"
    /\ Volatile
    /\ notified = [k \in Keys |-> [c \in Commits |-> 0]]
    /\ writers = NoWriters
    /\ undelivered = {}
    /\ faults = 0
    /\ replay = NoReplay
    /\ config = NoConfig
    /\ pager = NoPager

----------------------------------------------------------------------------
(* Environment *)

\* A commit is pushed to key k.
NewCommit(k) ==
    /\ remote[k] < MaxCommits
    /\ remote' = [remote EXCEPT ![k] = @ + 1]
    /\ UNCHANGED <<file, pc, commit_log, latest_commits, new_repos, idx,
                   commits, new_commits, i, notified, emitted, batchNew,
                   writers, sched, harness>>

----------------------------------------------------------------------------
(* main(): lines 524-584 *)

\* A start-up that takes every configured key for known.
find_new_repos_none(log) == <<>>

\* A start-up that takes every configured key for new.
find_new_repos_all(log) == parsed_repos

\* Line 550: the configured keys that the loaded log does not hold.
find_new_repos(log) ==
    SelectSeq(parsed_repos, LAMBDA k : k \notin DOMAIN log)

\* Lines 540-559: load the log, empty watermarks, find the new repositories.
MainStart ==
    /\ pc = "main"
    /\ LET log == load_commit_log(file)
           new == find_new_repos(log)
       IN  /\ commit_log' = log
           /\ latest_commits' = EmptyLog
           /\ new_repos' = new
           /\ idx' = 1
           /\ pc' = IF Len(new) > 0 THEN "init_fetch" ELSE "scan"
    /\ UNCHANGED <<remote, file, commits, new_commits, i, notified, emitted,
                   batchNew, writers, sched, harness>>

\* initialize_repo_log, lines 272-283: fetch the whole history.
InitFetch ==
    /\ pc = "init_fetch"
    /\ \E order \in Orders(fetch_all_commits(new_repos[idx])) :
          commits' = order
    /\ emitted' = <<>>
    /\ pc' = "init_save"
    /\ UNCHANGED <<remote, file, commit_log, latest_commits, new_repos, idx,
                   new_commits, i, notified, batchNew, writers, sched, harness>>

\* initialize_repo_log, lines 286-295: log every commit, save, set watermark.
InitSave ==
    /\ pc = "init_save"
    /\ LET key == new_repos[idx]
           log == init_log(commit_log, key, commits)
       IN  /\ commit_log' = log
           /\ file' = save_commit_log(log)
           /\ latest_commits' = init_watermark(latest_commits, key, commits)
    /\ pc' = "init_done"
    /\ UNCHANGED <<remote, new_repos, idx, commits, new_commits, i, notified,
                   emitted, batchNew, writers, sched, harness>>

\* initialize_repo_log, lines 296-303, and the for loop of line 556.
InitDone ==
    /\ pc = "init_done"
    /\ idx' = IF idx < Len(new_repos) THEN idx + 1 ELSE 1
    /\ pc' = IF idx < Len(new_repos) THEN "init_fetch" ELSE "scan"
    /\ commits' = <<>>
    /\ UNCHANGED <<remote, file, commit_log, latest_commits, new_repos,
                   new_commits, i, notified, emitted, batchNew, writers, sched, harness>>

\* Lines 562-576 when the quota suffices: the sleep is over and a new scan
\* starts with the first key.
ScanStart ==
    /\ pc = "scan"
    /\ idx' = 1
    /\ pc' = "check_repo"
    /\ slept' = 0
    /\ attempt' = NoAttempt
    /\ UNCHANGED <<remote, file, commit_log, latest_commits, new_repos,
                   commits, new_commits, i, notified, emitted, batchNew,
                   writers, raised, quota, undelivered, harness>>

\* check_repo, lines 499-504 and 507: the fetched list is sorted, the
\* watermark is advanced to its last element and the for loop is entered.
Fetched(key, order) ==
    LET sorted == sort_by_date(order) IN
    /\ new_commits' = sorted
    /\ batchNew' = {c \in Range(order) :
                       ~ has_been_logged(key, c, load_commit_log(file))}
    /\ IF Len(order) > 0
       THEN /\ latest_commits' =
                  [k \in DOMAIN latest_commits \cup {key} |->
                      IF k = key THEN CommitDate(sorted[Len(sorted)])
                      ELSE latest_commits[k]]
            /\ pc' = "for_commit"
       ELSE /\ latest_commits' = latest_commits
            /\ pc' = "check_done"
    /\ i' = 1
    /\ emitted' = <<>>

\* check_repo, lines 496-504: fetch, sort, advance the watermark.
CheckRepoFetch ==
    /\ pc = "check_repo"
    /\ LET key == parsed_repos[idx] IN
       \E inclusive \in BOOLEAN :
       \E order \in Orders(fetch_new_commits(
                      key, last_seen_timestamp(latest_commits, key), inclusive)) :
          /\ Fetched(key, order)
          /\ attempt' = [attempt EXCEPT ![key] = "tried"]
    /\ UNCHANGED <<remote, file, commit_log, new_repos, idx, commits,
                   notified, writers, raised, quota, slept, undelivered,
                   harness>>

\* check_repo, lines 507-514: the for loop's test of one commit.
ForCommit ==
    /\ pc = "for_commit"
    /\ IF has_been_logged(parsed_repos[idx], new_commits[i],
                          load_commit_log(file))
       THEN pc' = "check_done"         \* line 512: return
       ELSE pc' = "notify_log"         \* line 514: notify_discord(...)
    /\ UNCHANGED <<remote, file, commit_log, latest_commits, new_repos, idx,
                   commits, new_commits, i, notified, emitted, batchNew,
                   writers, sched, harness>>

\* notify_discord, lines 403 and 425: load the log, mark the sha, save.
NotifyLog ==
    /\ pc = "notify_log"
    /\ LET key == parsed_repos[idx]
           sha == new_commits[i]
           log == log_notified_commit(key, sha, load_commit_log(file))
       IN  /\ file' = save_commit_log(log)
    /\ pc' = "notify_post"
    /\ UNCHANGED <<remote, commit_log, latest_commits, new_repos, idx,
                   commits, new_commits, i, notified, emitted, batchNew,
                   writers, sched, harness>>

\* notify_discord, lines 489-491: the webhook post; then the next commit.
NotifyPost ==
    /\ pc = "notify_post"
    /\ LET key == parsed_repos[idx]
           sha == new_commits[i]
       IN  /\ notified' = [notified EXCEPT ![key][sha] = @ + 1]
           /\ emitted' = Append(emitted, sha)
    /\ i' = i + 1
    /\ pc' = IF i < Len(new_commits) THEN "for_commit" ELSE "check_done"
    /\ UNCHANGED <<remote, file, commit_log, latest_commits, new_repos, idx,
                   commits, new_commits, batchNew, writers, sched, harness>>

\* Lines 576-584: check_repo has returned and its locals are gone; next key,
\* or sleep and rescan.
CheckDone ==
    /\ pc = "check_done"
    /\ idx' = IF idx < Len(parsed_repos) THEN idx + 1 ELSE 1
    /\ pc' = IF idx < Len(parsed_repos) THEN "check_repo" ELSE "scan"
    /\ slept' = IF idx < Len(parsed_repos) THEN 0 ELSE CHECK_INTERVAL
    /\ attempt' = IF idx < Len(parsed_repos) THEN attempt ELSE NoAttempt
    /\ raised' = "none"
    /\ new_commits' = <<>>
    /\ i' = 1
    /\ emitted' = <<>>
    /\ batchNew' = {}
    /\ UNCHANGED <<remote, file, commit_log, latest_commits, new_repos,
                   commits, notified, writers, quota, undelivered, harness>>

Program ==
    \/ MainStart
    \/ InitFetch
    \/ InitSave
    \/ InitDone
    \/ ScanStart
    \/ CheckRepoFetch
    \/ ForCommit
    \/ NotifyLog
    \/ NotifyPost
    \/ CheckDone

----------------------------------------------------------------------------
(* Process restarts *)

\* The process starts again: every in-memory value is lost, the file stays.
Reboot ==
    /\ pc' = "main"
    /\ commit_log' = EmptyLog
    /\ latest_commits' = EmptyLog
    /\ new_repos' = <<>>
    /\ idx' = 1
    /\ commits' = <<>>
    /\ new_commits' = <<>>
    /\ i' = 1
    /\ emitted' = <<>>
    /\ batchNew' = {}
    /\ raised' = "none"
    /\ quota' = 0
    /\ slept' = 0
    /\ attempt' = NoAttempt

\* The process is stopped while it sleeps between two scans (line 584).
StopIdle ==
    /\ pc = "scan"
    /\ Reboot
    /\ UNCHANGED <<remote, file, notified, writers, undelivered, harness>>

\* The process is killed between two steps; the file is whole.
Kill ==
    /\ pc # "scan"
    /\ Reboot
    /\ UNCHANGED <<remote, file, notified, writers, undelivered, harness>>

\* The process is killed inside save_commit_log (lines 139-140), after
\* open(..., 'w') truncated the file and before json.dump completed.
KillInSave ==
    /\ pc \in {"init_save", "notify_log"}
    /\ Reboot
    /\ file' = TornFile
    /\ UNCHANGED <<remote, notified, writers, undelivered, harness>>

----------------------------------------------------------------------------
(* Specifications *)

Next ==
    \/ Program
    \/ \E k \in Keys : NewCommit(k)
    \/ StopIdle
    \/ Kill
    \/ KillInSave

Spec == Init /\ [][Next]_vars

----------------------------------------------------------------------------
(* Polling under the claim's hypothesis that cycles keep running: the      *)
(* process is stopped only while it sleeps between scans, every step of    *)
(* main() that can be taken is taken, and scans keep starting.             *)

LiveNext ==
    \/ Program
    \/ \E k \in Keys : NewCommit(k)
    \/ StopIdle

LiveSpec ==
    /\ Init
    /\ [][LiveNext]_vars
    /\ WF_vars(Program)
    /\ SF_vars(ScanStart)

----------------------------------------------------------------------------
(* main() with its rate-limit governor and with the exceptions that a      *)
(* request or the file system may raise inside the running process.  Each  *)
(* raise is a failure injected by the environment, at any time and any     *)
(* number of times; only the writes that fail midway are counted, and a    *)
(* behaviour holds at most MaxTorn of them.  An exception that nothing     *)
(* catches ends the process (pc = "exited"); what a restart then does is   *)
(* part of Spec, which kills the process at any step.                      *)

\* A governor that also backs off when the quota equals the budget.
should_backoff_inclusive(remaining, keys) == remaining <= PerKeyCost * keys

\* Line 565: requests_remaining < (10 * len(parsed_repos))
should_backoff(remaining, keys) == remaining < PerKeyCost * keys

\* Values of requests_remaining: just below the budget, and the budget.
QuotaValues == {PerKeyCost * Len(parsed_repos) - 1,
                PerKeyCost * Len(parsed_repos)}

\* raise_for_status of a fetch: HTTP 403 (quota exceeded) or another error.
FetchErrors == {"quota", "http"}

\* Line 563: monitor_api_usage returns the remaining quota.
MonitorUsage ==
    /\ pc = "scan"
    /\ \E remaining \in QuotaValues : quota' = remaining
    /\ slept' = 0
    /\ pc' = "governor"
    /\ UNCHANGED <<remote, file, commit_log, latest_commits, new_repos, idx,
                   commits, new_commits, i, notified, emitted, batchNew,
                   writers, raised, attempt, undelivered, harness>>

\* Lines 565-570: the quota is low; sleep twice the interval and start over.
Backoff ==
    /\ pc = "governor"
    /\ should_backoff(quota, Len(parsed_repos))
    /\ slept' = CHECK_INTERVAL * 2
    /\ pc' = "scan"
    /\ UNCHANGED <<remote, file, commit_log, latest_commits, new_repos, idx,
                   commits, new_commits, i, notified, emitted, batchNew,
                   writers, raised, quota, attempt, undelivered, harness>>

\* Lines 565 and 573-576: the quota suffices; the scan starts.
ScanGo ==
    /\ pc = "governor"
    /\ ~ should_backoff(quota, Len(parsed_repos))
    /\ idx' = 1
    /\ attempt' = NoAttempt
    /\ pc' = "check_repo"
    /\ UNCHANGED <<remote, file, commit_log, latest_commits, new_repos,
                   commits, new_commits, i, notified, emitted, batchNew,
                   writers, raised, quota, slept, undelivered, harness>>

\* Line 563: monitor_api_usage raises; nothing in main() catches it.
MonitorFails ==
    /\ pc = "scan"
    /\ raised' = "monitor"
    /\ slept' = 0
    /\ pc' = "exited"
    /\ UNCHANGED <<remote, file, commit_log, latest_commits, new_repos, idx,
                   commits, new_commits, i, notified, emitted, batchNew,
                   writers, quota, attempt, undelivered, harness>>

\* A check_repo that forgets the key's watermark when its fetch fails.
watermark_on_fetch_error_forgets(latest, key) ==
    [k \in DOMAIN latest \ {key} |-> latest[k]]

\* check_repo, lines 497-498: fetch_new_commits raises before line 504, so
\* latest_commits is what it was.
watermark_on_fetch_error(latest, key) == latest

\* check_repo, line 498: fetch_new_commits raises (raise_for_status at line
\* 213 or 224; a 403 is raised like any other status).
FetchNewFails ==
    /\ pc = "check_repo"
    /\ \E e \in FetchErrors : raised' = e
    /\ latest_commits' = watermark_on_fetch_error(latest_commits,
                                                  parsed_repos[idx])
    /\ attempt' = [attempt EXCEPT ![parsed_repos[idx]] = "failed"]
    /\ new_commits' = <<>>
    /\ i' = 1
    /\ emitted' = <<>>
    /\ batchNew' = {}
    /\ pc' = "except_request"
    /\ UNCHANGED <<remote, file, commit_log, new_repos, idx, commits,
                   notified, writers, quota, slept, undelivered, harness>>

\* save_commit_log raises: at open(), line 139, with the file untouched, or
\* inside json.dump, line 140, with the file truncated.
FailedSave ==
    \/ /\ file' = file
       /\ faults' = faults
    \/ /\ faults < MaxTorn
       /\ file' = TornFile
       /\ faults' = faults + 1

\* notify_discord, line 425: save_commit_log raises, either at open() with
\* the file untouched or inside json.dump with the file truncated.  The
\* exception is no RequestException: it leaves check_repo.
NotifyLogFails ==
    /\ pc = "notify_log"
    /\ FailedSave
    /\ raised' = "persist"
    /\ attempt' = [attempt EXCEPT ![parsed_repos[idx]] = "failed"]
    /\ pc' = "except_main"
    /\ UNCHANGED <<remote, commit_log, latest_commits, new_repos, idx,
                   commits, new_commits, i, notified, emitted, batchNew,
                   writers, quota, slept, undelivered, replay, config, pager>>

\* notify_discord, lines 458 and 489-490: a request made after the SHA was
\* logged raises (get_default_branch, or the webhook post).
NotifyPostFails ==
    /\ pc = "notify_post"
    /\ LET key == parsed_repos[idx]
           sha == new_commits[i]
       IN  /\ undelivered' = undelivered \cup {<<key, sha, notified[key][sha]>>}
           /\ attempt' = [attempt EXCEPT ![key] = "failed"]
    /\ raised' = "delivery"
    /\ pc' = "except_request"
    /\ UNCHANGED <<remote, file, commit_log, latest_commits, new_repos, idx,
                   commits, new_commits, i, notified, emitted, batchNew,
                   writers, quota, slept, harness>>

\* check_repo, lines 517-521: monitor_api_usage answers, the error is logged
\* and check_repo returns.
ExceptRequest ==
    /\ pc = "except_request"
    /\ pc' = "check_done"
    /\ UNCHANGED <<remote, file, commit_log, latest_commits, new_repos, idx,
                   commits, new_commits, i, notified, emitted, batchNew,
                   writers, sched, harness>>

\* check_repo, line 518: monitor_api_usage raises inside the handler.
ExceptRequestFails ==
    /\ pc = "except_request"
    /\ raised' = "monitor"
    /\ pc' = "except_main"
    /\ UNCHANGED <<remote, file, commit_log, latest_commits, new_repos, idx,
                   commits, new_commits, i, notified, emitted, batchNew,
                   writers, quota, slept, attempt, undelivered, harness>>

\* A handler that sits outside the for loop: the scan ends with this key.
resume_at_end(n) == Len(parsed_repos)

\* Lines 577-580: the try is inside the for loop, so the loop goes on with
\* the key after the one that raised.
resume_at(n) == n

\* main(), lines 579-580: except Exception logs whatever left check_repo.
ExceptMain ==
    /\ pc = "except_main"
    /\ idx' = resume_at(idx)
    /\ pc' = "check_done"
    /\ UNCHANGED <<remote, file, commit_log, latest_commits, new_repos,
                   commits, new_commits, i, notified, emitted, batchNew,
                   writers, sched, harness>>

\* fetch_all_commits, lines 241-252: HTTP 403; wait for the reset time and
\* request the same url again.
InitFetchWaits ==
    /\ pc = "init_fetch"
    /\ UNCHANGED vars

\* initialize_repo_log, lines 282-283: monitor_api_usage or
\* fetch_all_commits (line 254) raises; nothing in main() catches it.
InitFetchFails ==
    /\ pc = "init_fetch"
    /\ raised' = "bootstrap"
    /\ pc' = "exited"
    /\ UNCHANGED <<remote, file, commit_log, latest_commits, new_repos, idx,
                   commits, new_commits, i, notified, emitted, batchNew,
                   writers, quota, slept, attempt, undelivered, harness>>

\* initialize_repo_log, line 291: save_commit_log raises; nothing in main()
\* catches it.
InitSaveFails ==
    /\ pc = "init_save"
    /\ FailedSave
    /\ raised' = "persist"
    /\ pc' = "exited"
    /\ UNCHANGED <<remote, commit_log, latest_commits, new_repos, idx,
                   commits, new_commits, i, notified, emitted, batchNew,
                   writers, quota, slept, attempt, undelivered, replay,
                   config, pager>>

FaultNext ==
    \/ MainStart
    \/ InitFetch
    \/ InitSave
    \/ InitDone
    \/ MonitorUsage
    \/ Backoff
    \/ ScanGo
    \/ CheckRepoFetch
    \/ ForCommit
    \/ NotifyLog
    \/ NotifyPost
    \/ CheckDone
    \/ MonitorFails
    \/ FetchNewFails
    \/ NotifyLogFails
    \/ NotifyPostFails
    \/ ExceptRequest
    \/ ExceptRequestFails
    \/ ExceptMain
    \/ InitFetchWaits
    \/ InitFetchFails
    \/ InitSaveFails
    \/ \E k \in Keys : NewCommit(k)

FaultSpec == Init /\ [][FaultNext]_vars

----------------------------------------------------------------------------
(* Two pollers of distinct keys running the store section of               *)
(* notify_discord concurrently (section 5 of the specification allows one  *)
(* task per key): load at line 403, mark at lines 148-150, save at 151.    *)

\* Logs that may be on disk when the two writers start.
StartLogs ==
    {EmptyLog,
     [k \in {parsed_repos[1]} |-> {1}],
     [k \in Keys |-> {1}]}

ConcInit ==
    /\ remote = [k \in Keys |-> MaxCommits]
    /\ \E log \in StartLogs : file = save_commit_log(log)
    /\ pc = "harness"
    /\ Volatile
    /\ notified = [k \in Keys |-> [c \in Commits |-> 0]]
    /\ undelivered = {}
    /\ faults = 0
    /\ replay = NoReplay
    /\ config = NoConfig
    /\ pager = NoPager
    /\ \E k1, k2 \in Keys : \E c1, c2 \in Commits :
          /\ k1 # k2
          /\ writers = [w \in Writers |->
                           [pc |-> "load",
                            key |-> IF w = 1 THEN k1 ELSE k2,
                            sha |-> IF w = 1 THEN c1 ELSE c2,
                            log |-> EmptyLog]]

\* notify_discord line 403: commit_log = load_commit_log()
WLoad(w) ==
    /\ writers[w].pc = "load"
    /\ writers' = [writers EXCEPT ![w].log = load_commit_log(file),
                                  ![w].pc = "mark"]
    /\ UNCHANGED <<remote, file, pc, commit_log, latest_commits, new_repos,
                   idx, commits, new_commits, i, notified, emitted, batchNew,
                   sched, harness>>

\* log_notified_commit lines 148-150: the in-memory dict is updated.
WMark(w) ==
    /\ writers[w].pc = "mark"
    /\ writers' = [writers EXCEPT
                      ![w].log = log_notified_commit(writers[w].key,
                                                     writers[w].sha, @),
                      ![w].pc = "save"]
    /\ UNCHANGED <<remote, file, pc, commit_log, latest_commits, new_repos,
                   idx, commits, new_commits, i, notified, emitted, batchNew,
                   sched, harness>>

\* log_notified_commit line 151: save_commit_log(commit_log)
WSave(w) ==
    /\ writers[w].pc = "save"
    /\ file' = save_commit_log(writers[w].log)
    /\ writers' = [writers EXCEPT ![w].pc = "done"]
    /\ UNCHANGED <<remote, pc, commit_log, latest_commits, new_repos, idx,
                   commits, new_commits, i, notified, emitted, batchNew,
                   sched, harness>>

ConcNext == \E w \in Writers : WLoad(w) \/ WMark(w) \/ WSave(w)

ConcSpec == ConcInit /\ [][ConcNext]_vars

----------------------------------------------------------------------------
(* check_repo run twice on one fetch result: the list that the first run   *)
(* received from fetch_new_commits is handed to a second run, whatever the *)
(* log held before and in whatever order the list came.                    *)

\* Logs that may be on disk before the first run.
ReplayLogs == {EmptyLog} \cup {[k \in Keys |-> S] : S \in SUBSET Commits}

\* Results of fetch_new_commits: any commits of the key, in any order.
ReplayLists == UNION {Orders(S) : S \in SUBSET Commits}

ReplayInit ==
    /\ remote = [k \in Keys |-> MaxCommits]
    /\ \E log \in ReplayLogs : file = save_commit_log(log)
    /\ pc = "replay"
    /\ Volatile
    /\ notified = [k \in Keys |-> [c \in Commits |-> 0]]
    /\ writers = NoWriters
    /\ undelivered = {}
    /\ faults = 0
    /\ \E list \in ReplayLists : replay = [NoReplay EXCEPT !.list = list]
    /\ config = NoConfig
    /\ pager = NoPager

\* check_repo, lines 499-507, on the list of the harness; the posts made
\* and the log on disk before the run are recorded.
ReplayPoll ==
    /\ pc = "replay"
    /\ replay.round < 2
    /\ Fetched(parsed_repos[idx], replay.list)
    /\ replay' = [replay EXCEPT !.round = @ + 1,
                                !.notified = notified,
                                !.log = load_commit_log(file)]
    /\ UNCHANGED <<remote, file, commit_log, new_repos, idx, commits,
                   notified, writers, sched, faults, config, pager>>

\* check_repo has returned from its first run.
ReplayAgain ==
    /\ pc = "check_done"
    /\ replay.round = 1
    /\ pc' = "replay"
    /\ UNCHANGED <<remote, file, commit_log, latest_commits, new_repos, idx,
                   commits, new_commits, i, notified, emitted, batchNew,
                   writers, sched, harness>>

ReplayNext ==
    \/ ReplayPoll
    \/ ForCommit
    \/ NotifyLog
    \/ NotifyPost
    \/ ReplayAgain

ReplaySpec == ReplayInit /\ [][ReplayNext]_vars

----------------------------------------------------------------------------
(* parse_repos, lines 88-110, and the use main() makes of its result.  An  *)
(* entry of REPOS is "name" or "name:branch"; a key "name:branch" is the   *)
(* pair <<name, branch>>.                                                  *)

RepoNames == {"acme/widgets", "acme/gears"}

Branches == {"main", "dev"}

\* The branch of an entry that has no ':' (line 95: branch = None).
NoBranch == "None"

\* The entries that REPOS may hold.
Entries == [repo_name : RepoNames, branch : Branches \cup {NoBranch}]

\* REPOS: one to MaxRepos entries.
ReposLists == UNION {[1..n -> Entries] : n \in 1..MaxRepos}

\* The keys of the commit log, in the order in which the dict lists them.
LogKeyLists ==
    UNION {Orders(S) : S \in {T \in SUBSET (RepoNames \X Branches) :
                                 Cardinality(T) <= 2}}

RECURSIVE parse_repos(_, _, _)
\* parse_repos: an entry with ':' is split; an entry without takes the
\* branch of the first log key that starts with "name:", else the default
\* branch of the repository; every entry is appended to the result.
parse_repos(REPOS, log_keys, default) ==
    IF Len(REPOS) = 0 THEN <<>>
    ELSE LET repo == REPOS[Len(REPOS)]
             hits == SelectSeq(log_keys, LAMBDA key : key[1] = repo.repo_name)
             branch == IF repo.branch # NoBranch THEN repo.branch
                       ELSE IF Len(hits) > 0 THEN hits[1][2]
                       ELSE default[repo.repo_name]
         IN  Append(parse_repos(SubSeq(REPOS, 1, Len(REPOS) - 1),
                                log_keys, default),
                    <<repo.repo_name, branch>>)

ParseInit ==
    /\ remote = [k \in Keys |-> 1]
    /\ file = [state |-> "missing", data |-> EmptyLog]
    /\ pc = "parse_repos"
    /\ Volatile
    /\ notified = [k \in Keys |-> [c \in Commits |-> 0]]
    /\ writers = NoWriters
    /\ undelivered = {}
    /\ faults = 0
    /\ replay = NoReplay
    /\ \E REPOS \in ReposLists, log_keys \in LogKeyLists,
          default \in [RepoNames -> Branches] :
          config = [NoConfig EXCEPT !.REPOS = REPOS,
                                    !.log_keys = log_keys,
                                    !.default = default]
    /\ pager = NoPager

\* main(), line 540: parsed_repos = parse_repos(REPOS, headers)
ParseRepos ==
    /\ pc = "parse_repos"
    /\ config' = [config EXCEPT !.parsed_repos =
                     parse_repos(config.REPOS, config.log_keys,
                                 config.default)]
    /\ pc' = "new_repos"
    /\ UNCHANGED <<remote, file, commit_log, latest_commits, new_repos, idx,
                   commits, new_commits, i, notified, emitted, batchNew,
                   writers, sched, faults, replay, pager>>

\* main(), line 550: the parsed keys that the log does not hold; lines 556
\* and 576 then loop over new_repos and over parsed_repos.
ParseNewRepos ==
    /\ pc = "new_repos"
    /\ config' = [config EXCEPT !.new_repos =
                     SelectSeq(config.parsed_repos,
                               LAMBDA r : r \notin Range(config.log_keys))]
    /\ pc' = "configured"
    /\ UNCHANGED <<remote, file, commit_log, latest_commits, new_repos, idx,
                   commits, new_commits, i, notified, emitted, batchNew,
                   writers, sched, faults, replay, pager>>

ParseNext == ParseRepos \/ ParseNewRepos

ParseSpec == ParseInit /\ [][ParseNext]_vars

----------------------------------------------------------------------------
(* fetch_all_commits over a paginated listing: lines 113-124 and 235-268 *)

\* Most commits that the remote service puts in one page.
MaxPerPage == 2

\* reset_time - time.time() of line 245, in seconds: the reset may already
\* lie in the past.
WaitTimes == {-1, 3, 9}

\* The pages in which the service lists `list`, `per` commits to a page; an
\* empty listing is one empty page.
PagesOf(list, per) ==
    LET n == IF Len(list) = 0 THEN 1 ELSE (Len(list) + per - 1) \div per
    IN  [p \in 1..n |->
            SubSeq(list, (p - 1) * per + 1,
                   IF p * per < Len(list) THEN p * per ELSE Len(list))]

\* All pages one after the other.
RECURSIVE Concat(_)
Concat(pages) ==
    IF Len(pages) = 0 THEN <<>>
    ELSE Concat(SubSeq(pages, 1, Len(pages) - 1)) \o pages[Len(pages)]

\* The Link header of page p of n, as the list of its parts in the order the
\* service writes them: "<url>; rel=..." for next and last when a later page
\* exists, for prev and first when an earlier one does.  No part, no header.
LinkHeader(p, n, prev_first) ==
    LET later == IF p < n
                 THEN <<[rel |-> "next", page |-> p + 1],
                        [rel |-> "last", page |-> n]>>
                 ELSE <<>>
        earlier == IF p > 1
                   THEN <<[rel |-> "prev", page |-> p - 1],
                          [rel |-> "first", page |-> 1]>>
                   ELSE <<>>
    IN  IF prev_first THEN earlier \o later ELSE later \o earlier

\* parse_link_header, lines 113-124: split(',') cuts the header into parts,
\* split(';') cuts a part into the url section and the rel section, and
\* section[0].strip('<>') takes angle brackets off the two ends of the url
\* section.  When the header has a space behind each comma, every part but
\* the first starts with that space, strip('<>') stops at it, and the url
\* keeps " <" in front: it is not clean.
parse_link_header(link_header, spaced) ==
    [r \in {link_header[n].rel : n \in 1..Len(link_header)} |->
        LET n == CHOOSE m \in 1..Len(link_header) : link_header[m].rel = r
        IN  [page |-> link_header[n].page,
             clean |-> (n = 1 \/ ~spaced)]]

\* Lines 257-266: the url of the next round of the loop.
next_url(p, n, prev_first, spaced) ==
    LET link_header == LinkHeader(p, n, prev_first)
    IN  IF link_header = <<>> THEN NoneUrl
        ELSE LET links == parse_link_header(link_header, spaced)
             IN  IF "next" \in DOMAIN links THEN links["next"] ELSE NoneUrl

\* The variables of main(), which a call in the harness leaves alone.
main_vars == <<remote, file, pc, commit_log, latest_commits, new_repos, idx,
               commits, new_commits, i, notified, emitted, batchNew, writers,
               sched, faults, replay, config>>

\* Lines 237-240: the call starts at the url of the first page.
PagerInit ==
    /\ remote = [k \in Keys |-> MaxCommits]
    /\ file = [state |-> "missing", data |-> EmptyLog]
    /\ pc = "fetch_all_commits"
    /\ Volatile
    /\ notified = [k \in Keys |-> [c \in Commits |-> 0]]
    /\ writers = NoWriters
    /\ undelivered = {}
    /\ faults = 0
    /\ replay = NoReplay
    /\ config = NoConfig
    /\ \E list \in UNION {Orders(S) : S \in SUBSET Commits},
          per \in 1..MaxPerPage, prev_first \in BOOLEAN, spaced \in BOOLEAN :
          pager = [NoPager EXCEPT !.pages = PagesOf(list, per),
                                  !.prev_first = prev_first,
                                  !.spaced = spaced,
                                  !.url = [page |-> 1, clean |-> TRUE],
                                  !.pc = "while"]

\* Lines 242 and 254-266: the request is answered with a page; the batch is
\* appended and the Link header gives the next url, or None.
FetchAllPage ==
    /\ pager.pc = "while"
    /\ pager.url # NoneUrl
    /\ pager.url.clean
    /\ pager' = [pager EXCEPT
                    !.commits = pager.commits \o pager.pages[pager.url.page],
                    !.url = next_url(pager.url.page, Len(pager.pages),
                                     pager.prev_first, pager.spaced)]
    /\ UNCHANGED main_vars

\* Lines 242-245: the request is answered with 403; wait_time is what is left
\* until the reset.
FetchAllQuota ==
    /\ pager.pc = "while"
    /\ pager.url # NoneUrl
    /\ pager.url.clean
    /\ \E w \in WaitTimes :
          pager' = [pager EXCEPT !.wait_time = w, !.pc = "wait"]
    /\ UNCHANGED main_vars

\* Lines 249-252: five more seconds of the wait.
FetchAllSleep ==
    /\ pager.pc = "wait"
    /\ pager.wait_time > 0
    /\ pager' = [pager EXCEPT !.wait_time = pager.wait_time - 5]
    /\ UNCHANGED main_vars

\* Lines 249 and 253: the wait is over, `continue` asks for the same url.
FetchAllRetry ==
    /\ pager.pc = "wait"
    /\ pager.wait_time <= 0
    /\ pager' = [pager EXCEPT !.pc = "while"]
    /\ UNCHANGED main_vars

\* Line 242: requests.get of a url that starts with " <" finds no connection
\* adapter for it and raises InvalidSchema, which nothing in
\* fetch_all_commits catches.
FetchAllBadUrl ==
    /\ pager.pc = "while"
    /\ pager.url # NoneUrl
    /\ ~pager.url.clean
    /\ pager' = [pager EXCEPT !.pc = "raised"]
    /\ UNCHANGED main_vars

\* Lines 241 and 268: url is None, the loop ends and commits is returned.
FetchAllReturn ==
    /\ pager.pc = "while"
    /\ pager.url = NoneUrl
    /\ pager' = [pager EXCEPT !.pc = "returned"]
    /\ UNCHANGED main_vars

PagerNext ==
    \/ FetchAllPage
    \/ FetchAllQuota
    \/ FetchAllSleep
    \/ FetchAllRetry
    \/ FetchAllBadUrl
    \/ FetchAllReturn

PagerSpec == PagerInit /\ [][PagerNext]_vars

----------------------------------------------------------------------------
(* Auxiliary definitions of the properties *)

\* The key that check_repo / initialize_repo_log is working on.
PollKey == parsed_repos[idx]
BootKey == new_repos[idx]

DurableLog == load_commit_log(file)

MaxDate(S) == CHOOSE d \in {CommitDate(c) : c \in S} :
                 \A c \in S : CommitDate(c) <= d

Ascending(s) ==
    \A a, b \in 1..Len(s) : a < b => CommitDate(s[a]) <= CommitDate(s[b])

Times(s, c) == Cardinality({n \in 1..Len(s) : s[n] = c})

\* The positions of main() inside initialize_repo_log and inside check_repo.
BootPcs == {"init_fetch", "init_save", "init_done"}
PollPcs == {"check_repo", "for_commit", "notify_log", "notify_post",
            "check_done"}

\* Where key k stands for the running process: 0 UNSEEN (not in the log the
\* process holds), 1 INITIALIZING (initialize_repo_log is at work on it and
\* has not logged it yet), 2 READY (in the log).
KeyRank(k) ==
    IF k \in DOMAIN commit_log THEN 2
    ELSE IF pc \in BootPcs /\ BootKey = k THEN 1
    ELSE 0

\* The key that main() is processing, in either loop.
CurrentKey == IF pc \in BootPcs THEN BootKey ELSE PollKey

\* What a log holds for key k: whether it has the key, and the SHAs.
Entry(log, k) ==
    IF k \in DOMAIN log THEN <<TRUE, log[k]>> ELSE <<FALSE, {}>>

\* The dict that the save_commit_log call in progress is writing.
PendingSave ==
    IF pc = "init_save" THEN init_log(commit_log, BootKey, commits)
    ELSE IF pc = "notify_log"
         THEN log_notified_commit(PollKey, new_commits[i], DurableLog)
         ELSE DurableLog

----------------------------------------------------------------------------
(* Properties *)

C2_EventuallyNotified ==
    \A k \in Keys, c \in Commits :
        []((k \in DOMAIN DurableLog /\ remote[k] < c)
              => [](remote[k] >= c => <>(notified[k][c] = 1)))

\* C3: when check_repo has returned, every fetched commit that was not in
\* the log when it was fetched has been emitted by this run, however many
\* already-logged commits precede it in sorted order.
C3_UnseenAreEmitted ==
    pc = "check_done" => batchNew \subseteq Range(emitted)

\* C4: when initialize_repo_log has completed, every SHA that
\* fetch_all_commits returned is seen for the key in the durable log and the
\* bootstrap has dispatched no commit notification.
C4_BootstrapSilent ==
    pc = "init_done" =>
        /\ \A c \in Range(commits) : has_been_logged(BootKey, c, DurableLog)
        /\ BootKey \in DOMAIN DurableLog
        /\ emitted = <<>>

\* A bootstrap of a key with three historical commits has completed.
C4_Witness ==
    /\ pc = "init_done"
    /\ Len(commits) = 3

\* C5: when check_repo has returned, the notifications of the run are in
\* ascending committer-date order and are exactly the commits that were
\* newly discovered by the fetch, each one once.
C5_AscendingExactlyOnce ==
    pc = "check_done" =>
        /\ Ascending(emitted)
        /\ \A c \in batchNew : Times(emitted, c) = 1
        /\ Range(emitted) \subseteq batchNew

\* C6: every step that dispatches a notification for a SHA is taken in a
\* state whose durable log already holds that SHA for the key; hence a
\* logged SHA was persisted before its dispatch, or has not been dispatched.
C6_PersistBeforeDispatch ==
    [][\A k \in Keys, c \in Commits :
          notified'[k][c] > notified[k][c] =>
              has_been_logged(k, c, DurableLog)]_vars

\* A notification has been dispatched and its SHA is in the durable log.
C6_Witness ==
    \E k \in Keys, c \in Commits :
        /\ notified[k][c] = 1
        /\ has_been_logged(k, c, DurableLog)

\* C7: a SHA that a completed save has put in the durable log is found by
\* has_been_logged on the reloaded log after every later step.
C7_SeenSurvivesReload ==
    [][\A k \in Keys, c \in Commits :
          has_been_logged(k, c, load_commit_log(file)) =>
              has_been_logged(k, c, load_commit_log(file'))]_vars

\* C8: when both interleaved mark-and-persist sections have completed, the
\* durable log holds the SHA of each of the two keys.
C8_NoLostUpdate ==
    (\A w \in Writers : writers[w].pc = "done") =>
        \A w \in Writers :
            has_been_logged(writers[w].key, writers[w].sha, DurableLog)

\* C9: whatever happens to a save_commit_log call, the log that
\* load_commit_log returns afterwards is the complete old log or the
\* complete new one.
C9_AllOrNothing ==
    [][load_commit_log(file') \in {DurableLog, PendingSave}]_vars

\* C10: when initialize_repo_log has completed on a non-empty history, the
\* key's watermark is the committer date of the newest commit returned by
\* fetch_all_commits, in whatever order the list came.
C10_WatermarkIsNewest ==
    (pc = "init_done" /\ Len(commits) > 0) =>
        /\ BootKey \in DOMAIN latest_commits
        /\ latest_commits[BootKey] = MaxDate(Range(commits))

\* C11: when check_repo is run a second time on the very list of commits
\* that its first run received, the second run posts nothing and leaves the
\* commit log on disk as the first run left it.
C11_ReplayIsNoOp ==
    replay.round = 2 =>
        /\ notified = replay.notified
        /\ DurableLog = replay.log

\* The second run has returned; the first one had posted for the list.
C11_Witness ==
    /\ replay.round = 2
    /\ pc = "check_done"
    /\ Len(new_commits) >= 2
    /\ \E c \in Range(new_commits) : notified[PollKey][c] = 1

\* C12: a quota-exceeded response (HTTP 403) to a fetch is waited out and
\* the request repeated inside the fetch operation, so no fetch ever raises
\* an exception for it to its caller; only other HTTP errors are raised.
C12_QuotaNeverSurfaces == raised # "quota"

\* C13: when save_commit_log raises during a poll, the key's watermark is
\* not later than the date of any commit of the fetched batch that is not in
\* the log on disk, so that commit is still in the next fetch window.
C13_WatermarkBehindUnpersisted ==
    (pc = "except_main" /\ raised = "persist") =>
        \A c \in Range(new_commits) :
            ~ has_been_logged(PollKey, c, DurableLog) =>
                last_seen_timestamp(latest_commits, PollKey) <= CommitDate(c)

\* C14: from the step in which fetch_new_commits raises until check_repo has
\* returned, no notification is posted, and the watermarks and the commit
\* log on disk stay as they were.
C14_FetchErrorChangesNothing ==
    [][(raised \in FetchErrors \/ raised' \in FetchErrors) =>
          /\ notified' = notified
          /\ latest_commits' = latest_commits
          /\ file' = file]_vars

\* check_repo returns from a failed fetch while a commit newer than the
\* key's watermark is waiting on the remote.
C14_Witness ==
    /\ pc = "check_done"
    /\ raised \in FetchErrors
    /\ PollKey \in DOMAIN latest_commits
    /\ remote[PollKey] > latest_commits[PollKey]

\* C15: a commit whose webhook post raised stays marked in the log on disk,
\* and no notification is posted for it afterwards.
C15_UndeliveredStaysSeen ==
    \A u \in undelivered :
        /\ has_been_logged(u[1], u[2], DurableLog)
        /\ notified[u[1]][u[2]] = u[3]

\* C16: when the scan reaches the end of its last key, every configured key
\* has been handed to check_repo in this scan, whatever was raised on the
\* way.
C16_EveryKeyAttempted ==
    (pc = "check_done" /\ idx = Len(parsed_repos)) =>
        \A k \in Keys : attempt[k] # "none"

\* The first key raised and the last key was polled all the same.
C16_Witness ==
    /\ pc = "check_done"
    /\ idx = Len(parsed_repos)
    /\ attempt[parsed_repos[1]] = "failed"
    /\ attempt[parsed_repos[Len(parsed_repos)]] = "tried"

\* C17: a cycle starts by querying the quota; when the remaining requests
\* are fewer than PerKeyCost per watched key, nothing is fetched, posted or
\* written and the scheduler sleeps twice CHECK_INTERVAL; otherwise the scan
\* runs from the first key and is followed by a sleep of CHECK_INTERVAL.
C17_Governor ==
    [][/\ (pc = "scan" /\ pc' # "scan") =>
              /\ pc' \in {"governor", "exited"}
              /\ pc' = "governor" => quota' \in QuotaValues
       /\ (pc = "governor" /\ pc' # "governor") =>
              IF quota < PerKeyCost * Len(parsed_repos)
              THEN /\ pc' = "scan"
                   /\ slept' = 2 * CHECK_INTERVAL
                   /\ UNCHANGED <<file, notified, latest_commits>>
              ELSE /\ pc' = "check_repo"
                   /\ idx' = 1
       /\ (pc = "check_done" /\ pc' = "scan") =>
              slept' = CHECK_INTERVAL]_vars

\* The scheduler backs off although a commit is waiting on the remote.
C17_Witness ==
    /\ pc = "scan"
    /\ slept = 2 * CHECK_INTERVAL
    /\ quota < PerKeyCost * Len(parsed_repos)
    /\ \E k \in DOMAIN latest_commits : remote[k] > latest_commits[k]

\* C18: a fetch error during a key's bootstrap leaves the scheduler
\* running: the process does not end on it.
C18_BootstrapFailureSurvived == ~ (pc = "exited" /\ raised = "bootstrap")

C20_NoDuplicateKeys ==
    /\ \A a, b \in 1..Len(config.parsed_repos) :
          a # b => config.parsed_repos[a] # config.parsed_repos[b]
    /\ \A a, b \in 1..Len(config.new_repos) :
          a # b => config.new_repos[a] # config.new_repos[b]

\* C21: a poll that fetched a non-empty list sets the key's watermark to the
\* latest committer date of the list, whether or not its commits were
\* already logged, and the rest of the poll keeps it there; a poll that
\* fetched an empty list leaves the watermarks as they were.
C21_WatermarkIsMaxFetched ==
    [][/\ (pc = "check_repo" /\ pc' \in {"for_commit", "check_done"}) =>
              IF new_commits' = <<>>
              THEN latest_commits' = latest_commits
              ELSE /\ PollKey \in DOMAIN latest_commits'
                   /\ latest_commits'[PollKey] = MaxDate(Range(new_commits'))
       /\ (pc \in {"for_commit", "notify_log", "notify_post"}
             /\ pc' # "main") =>
              latest_commits' = latest_commits]_vars

\* check_repo has returned at an already logged commit of a list of
\* several, and the watermark is the date of the latest of them.
C21_Witness ==
    /\ pc = "check_done"
    /\ Len(new_commits) >= 2
    /\ has_been_logged(PollKey, new_commits[1], DurableLog)
    /\ emitted = <<>>
    /\ latest_commits[PollKey] = MaxDate(Range(new_commits))

\* C22: fetch_all_commits goes from page to page along the next links and
\* ends by returning every page's commits once, in page order, whatever 403
\* answers and waits came in between; it does not end in any other way when
\* every answer is a page or a 403.
C22_AllPagesInOrder ==
    /\ pager.pc # "raised"
    /\ pager.pc = "returned" => pager.commits = Concat(pager.pages)

\* C23: while a process runs, a key only goes from UNSEEN to INITIALIZING to
\* READY.  At start-up exactly the configured keys that the log on disk does
\* not hold are set down for the bootstrap, the bootstrap takes up only such
\* a key and only while it is UNSEEN, and check_repo runs for a key only
\* when it is READY, in the process's log and in the log on disk.
C23_UnseenInitializingReady ==
    [][/\ (pc = "main" /\ pc' # "main") =>
              Range(new_repos') = Keys \ DOMAIN DurableLog
       /\ (pc # "main" /\ pc' # "main") =>
              /\ new_repos' = new_repos
              /\ \A k \in Keys :
                    /\ KeyRank(k)' >= KeyRank(k)
                    /\ KeyRank(k)' = 1 => KeyRank(k) \in {0, 1}
       /\ pc' \in {"init_fetch", "init_save"} =>
              /\ BootKey' \in Range(new_repos')
              /\ BootKey' \notin DOMAIN DurableLog'
              /\ KeyRank(BootKey)' = 1
       /\ pc' \in PollPcs =>
              /\ KeyRank(PollKey)' = 2
              /\ PollKey' \in DOMAIN DurableLog']_vars

\* A process that found the first key in the log and the second one not has
\* bootstrapped the second and is about to poll the first.
C23_Witness ==
    /\ pc = "check_repo"
    /\ idx = 1
    /\ new_repos = <<parsed_repos[2]>>
    /\ Keys \subseteq DOMAIN commit_log

\* C24: a step of the bootstrap or of the poll of one key, in a process that
\* goes on running, leaves every other key's entry as it was in the log on
\* disk and in the log in memory, and leaves every other key's watermark.
C24_OtherKeysUntouched ==
    [][(pc \in BootPcs \cup PollPcs /\ pc' # "main") =>
          \A k \in Keys \ {CurrentKey} :
             /\ Entry(DurableLog', k) = Entry(DurableLog, k)
             /\ Entry(commit_log', k) = Entry(commit_log, k)
             /\ last_seen_timestamp(latest_commits', k)
                   = last_seen_timestamp(latest_commits, k)]_vars

\* C25: in a running process the watermark of a key never goes down,
\* whatever bootstraps, polls and errors follow one another: after every
\* step each key's watermark is at least what it was before, for a remote
\* service that lists no commit older than the `since` it was given.
C25_WatermarkNeverDecreases ==
    [][pc' # "main" =>
          \A k \in Keys :
             last_seen_timestamp(latest_commits', k)
                >= last_seen_timestamp(latest_commits, k)]_vars

\* A poll has moved the key's watermark to a commit it notified, and a
\* later fetch for the key has failed and left the watermark there.
C25_Witness ==
    /\ pc = "except_request"
    /\ raised \in FetchErrors
    /\ PollKey \in DOMAIN latest_commits
    /\ latest_commits[PollKey] = CommitDate(MaxCommits)
    /\ notified[PollKey][MaxCommits] = 1

====
